---- MODULE Spec2Model ----
(***************************************************************************)
(* A model of napari-deeplabcut's range widgets and video skimmer:         *)
(*   misc.InclusiveInterval            (src/napari_deeplabcut/misc.py)     *)
(*   _inputs.PyIntValidator and                                            *)
(*   _inputs.AdjustableRangeSlider     (src/napari_deeplabcut/_inputs.py)  *)
(*   video_skimmer.VideoSkimmer  (src/napari_deeplabcut/video_skimmer.py)  *)
(*   misc.to_os_dir_sep                (src/napari_deeplabcut/misc.py)     *)
(*                                                                         *)
(* Python numbers.  InclusiveInterval takes `int | float` arguments and    *)
(* casts them with int().  A number argument x is represented here by the  *)
(* integer 2*x, so that the model covers the integers and the halves       *)
(* (0.5, -1.5, ...); a stored bound of an interval is always a Python int  *)
(* and is represented by itself.                                           *)
(*                                                                         *)
(* Python arguments whose type the code inspects (isinstance, `is None`)   *)
(* are tagged records [t |-> "num" | "interval" | "None", v |-> value].    *)
(*                                                                         *)
(* A call returns a record whose field exc names the exception that        *)
(* escaped the call ("None" when the call returned normally) and whose     *)
(* field obj (or w, for the widget) is the receiver after the call.        *)
(***************************************************************************)
EXTENDS Integers, Sequences, FiniteSets, TLC

VARIABLES
    I,        \* an InclusiveInterval object held by a caller
    Ipre,     \* the value of I when the last call on it began
    Icall,    \* the last call on I: its name, arguments and exception
    ars,      \* an AdjustableRangeSlider widget
    pre,      \* the value of ars when the last call on it began
    call,     \* the last call on ars: name, arguments, exception, emissions
    K,        \* the object I.copy() constructed, once there is one
    Kpre,     \* what the name k showed when the last call on I or k began
    kref,     \* the object the caller's name k = I.copy() is bound to
    got,      \* the interval a caller read from ars.range or ars.range_bounds
    vs,       \* a VideoSkimmer widget
    vpre,     \* the value of vs when the last call on it began
    vcall,    \* the last call on vs: name, arguments, exception, effects
    pcall     \* the last call of to_os_dir_sep: path, host, result, exception

vars ==
    <<I, Ipre, Icall, ars, pre, call, K, Kpre, kref, got, vs, vpre, vcall, pcall>>

\* the variables of the VideoSkimmer
skimmer == <<vs, vpre, vcall>>

(***************************************************************************)
(* Bounds of the model.                                                    *)
(***************************************************************************)
\* integers offered as arguments lie in 0..MaxVal (the slider) and in
\* -MaxVal..MaxVal (the interval)
MaxVal == 2

\* the integers offered to the slider's methods
Vals == 0..MaxVal

\* the Python ints offered to the interval's methods
IVals == (0 - MaxVal)..MaxVal

\* the Python numbers (ints and halves) offered to the interval's methods,
\* each represented by its double
Nums == (0 - 2 * MaxVal)..(2 * MaxVal)

(***************************************************************************)
(* Python numbers                                                          *)
(***************************************************************************)
\* the representation of the Python int n as a number argument
Num(n) == 2 * n

\* int(x) for a number x: truncation toward zero
ToInt(x) == IF x >= 0 THEN x \div 2 ELSE 0 - ((0 - x) \div 2)

NumArg(x) == [t |-> "num", v |-> x]

IntervalArg(iv) == [t |-> "interval", v |-> iv]

None == [t |-> "None", v |-> 0]

Ok(obj) == [obj |-> obj, exc |-> "None"]

Raise(obj, e) == [obj |-> obj, exc |-> e]

(***************************************************************************)
(* misc.InclusiveInterval                                                  *)
(***************************************************************************)
\* the intervals a caller can hold: every constructed interval has min <= max
Intervals == {iv \in [min : IVals, max : IVals] : iv.min <= iv.max}

\* set with the new minimum stored before the check
set_min_stored_first(self, min_, max_) ==
    LET mn == ToInt(min_)
        mx == ToInt(max_)
    IN  IF mn > mx
        THEN Raise([self EXCEPT !.min = mn], "ValueError")
        ELSE Ok([min |-> mn, max |-> mx])

\* InclusiveInterval.set
set(self, min_, max_) ==
    LET mn == ToInt(min_)
        mx == ToInt(max_)
    IN  IF mn > mx
        THEN Raise(self, "ValueError")
        ELSE Ok([min |-> mn, max |-> mx])

\* InclusiveInterval.__init__: on an exception no object is constructed, and
\* obj is the fresh object as set left it
InclusiveInterval(min_, max_) == set([min |-> 0, max |-> 0], min_, max_)

\* the min setter without its check against max
min_setter_unchecked(self, new_min) == Ok([self EXCEPT !.min = ToInt(new_min)])

\* InclusiveInterval.min setter
min_setter(self, new_min) ==
    LET v == ToInt(new_min)
    IN  IF v > self.max
        THEN Raise(self, "ValueError")
        ELSE Ok([self EXCEPT !.min = v])

\* InclusiveInterval.max setter
max_setter(self, new_max) ==
    LET v == ToInt(new_max)
    IN  IF v < self.min
        THEN Raise(self, "ValueError")
        ELSE Ok([self EXCEPT !.max = v])

\* InclusiveInterval.copy
copy(self) == InclusiveInterval(Num(self.min), Num(self.max)).obj

\* a copy method that hands back the receiver itself
copy_returns_self(self) == [ref |-> "self", obj |-> self]

\* the object InclusiveInterval.copy returns: self.__class__(...) is a new
\* object (ref "new"), holding the copied bounds
copy_object(self) == [ref |-> "new", obj |-> copy(self)]

\* the end of normalize with the second test made an elif of the first
normalize_expand_elif(self, mn, mx) ==
    IF Num(self.max) < mx
    THEN max_setter(self, mx)
    ELSE IF Num(self.min) > mn THEN min_setter(self, mn) ELSE Ok(self)

\* the two conditional assignments that end InclusiveInterval.normalize,
\* for number arguments mn and mx
normalize_expand(self, mn, mx) ==
    LET s1 == IF Num(self.max) < mx THEN max_setter(self, mx) ELSE Ok(self)
    IN  IF s1.exc # "None"
        THEN s1
        ELSE IF Num(s1.obj.min) > mn THEN min_setter(s1.obj, mn) ELSE s1

\* InclusiveInterval.normalize; min_ and max_ are tagged arguments
normalize(self, min_, max_) ==
    IF min_.t = "interval"
    THEN normalize_expand(self, Num(min_.v.min), Num(min_.v.max))
    ELSE IF max_.t = "None"
         THEN Raise(self, "ValueError")
         ELSE IF min_.v > max_.v
              THEN Raise(self, "ValueError")
              ELSE normalize_expand(self, min_.v, max_.v)

\* contains testing only the lower end of an interval argument
contains_lower_end_only(self, num) ==
    IF num.t = "interval"
    THEN self.min <= num.v.min
    ELSE Num(self.min) <= num.v /\ num.v <= Num(self.max)

\* InclusiveInterval.contains; num is a tagged argument
contains(self, num) ==
    IF num.t = "interval"
    THEN self.min <= num.v.min /\ num.v.max <= self.max
    ELSE Num(self.min) <= num.v /\ num.v <= Num(self.max)

\* equality by identity, as without __eq__: a new object equals no other
eq_identity(self, other) == FALSE

\* InclusiveInterval.__eq__ for two intervals
eq(self, other) == self.min = other.min /\ self.max = other.max

(***************************************************************************)
(* Text of a QLineEdit: a sequence of characters.                          *)
(***************************************************************************)
DigitChars == <<"0", "1", "2", "3", "4", "5", "6", "7", "8", "9">>

\* the value of a digit character
DigitValue(c) == (CHOOSE i \in 1..10 : DigitChars[i] = c) - 1

\* str.isdigit
isdigit(string) ==
    /\ Len(string) > 0
    /\ \A i \in 1..Len(string) : \E d \in 1..10 : DigitChars[d] = string[i]

RECURSIVE StrNat(_)
\* the decimal digits of a natural number
StrNat(n) ==
    IF n < 10
    THEN <<DigitChars[n + 1]>>
    ELSE StrNat(n \div 10) \o <<DigitChars[(n % 10) + 1]>>

\* str(n) for a Python int n
StrOfInt(n) == IF n < 0 THEN <<"-">> \o StrNat(0 - n) ELSE StrNat(n)

RECURSIVE NatOfDigits(_)
\* the value of a non-empty sequence of digits
NatOfDigits(s) ==
    IF Len(s) = 1
    THEN DigitValue(s[1])
    ELSE 10 * NatOfDigits(SubSeq(s, 1, Len(s) - 1)) + DigitValue(s[Len(s)])

\* int(text) for a text the validator accepts
IntOfText(s) ==
    IF s[1] = "-"
    THEN 0 - NatOfDigits(Tail(s))
    ELSE IF s[1] = "+" THEN NatOfDigits(Tail(s)) ELSE NatOfDigits(s)

\* _inputs._is_int
is_int(string) ==
    IF Len(string) > 0 /\ string[1] \in {"+", "-"}
    THEN isdigit(Tail(string))
    ELSE isdigit(string)

\* _inputs.PyIntValidator.validate: the state it returns
validate(input_) ==
    IF input_ \in {<<>>, <<"+">>, <<"-">>}
    THEN "Intermediate"
    ELSE IF is_int(input_) THEN "Acceptable" ELSE "Invalid"

\* the texts a user leaves in a field: the integers of Vals and their
\* neighbours written plainly, with a sign or with a leading zero, and the
\* texts the validator lets a user type but not commit
TypedTexts ==
    {StrOfInt(n) : n \in (0 - 1)..(MaxVal + 1)}
        \cup {<<"+">> \o StrNat(n) : n \in Vals}
        \cup {<<"0">> \o StrNat(MaxVal), <<"-", "0">>, <<>>, <<"-">>}

(***************************************************************************)
(* QSlider (Qt): minimum, maximum and value                                *)
(***************************************************************************)
\* QAbstractSlider's maximum after construction
QSliderDefaultMaximum == 99

\* a QSlider as constructed
QSlider == [minimum |-> 0, maximum |-> QSliderDefaultMaximum, value |-> 0]

\* QAbstractSlider.setRange: the maximum is raised to the minimum and the
\* value is bounded by the new range
setRange(s, mn, mx) ==
    LET top == IF mx < mn THEN mn ELSE mx
        val == IF s.value < mn THEN mn ELSE IF s.value > top THEN top ELSE s.value
    IN  [minimum |-> mn, maximum |-> top, value |-> val]

(***************************************************************************)
(* _inputs.AdjustableRangeSlider                                           *)
(* A method returns [w, exc, emitted]: the widget after the call, the      *)
(* exception that escaped it and the number of rangeChanged emissions.     *)
(***************************************************************************)
\* a normal return that emits rangeChanged whatever the emit flag is
Done_emits_always(w, n) == [w |-> w, exc |-> "None", emitted |-> 1]

Done(w, n) == [w |-> w, exc |-> "None", emitted |-> n]

Raised(w, e) == [w |-> w, exc |-> e, emitted |-> 0]

\* AdjustableRangeSlider.__init__
AdjustableRangeSlider ==
    [range |-> InclusiveInterval(Num(0), Num(0)).obj,
     range_bounds |-> InclusiveInterval(Num(0), Num(0)).obj,
     slider |-> QSlider,
     range_min_line_edit |-> <<"0">>,
     range_max_line_edit |-> <<"0">>]

\* AdjustableRangeSlider._update_widgets
update_widgets(w) ==
    [w EXCEPT !.range_min_line_edit = StrOfInt(w.range.min),
              !.range_max_line_edit = StrOfInt(w.range.max),
              !.slider = setRange(w.slider, w.range.min, w.range.max)]

\* _min_edited without the test against the range bounds
min_edited_ignores_bounds(w) ==
    LET new_min == IntOfText(w.range_min_line_edit)
    IN  IF new_min > w.range.max
        THEN Done([w EXCEPT !.range_min_line_edit = StrOfInt(w.range.min)], 0)
        ELSE LET r == min_setter(w.range, Num(new_min))
             IN  IF r.exc # "None"
                 THEN Raised(w, r.exc)
                 ELSE Done([w EXCEPT !.range = r.obj,
                                     !.slider = setRange(w.slider, r.obj.min, r.obj.max)], 1)

\* a range property that hands out the widget's own interval
range_returns_attribute(w) == [ref |-> "self", obj |-> w.range]

\* AdjustableRangeSlider.range (property)
range(w) == copy_object(w.range)

\* AdjustableRangeSlider.range_bounds (property)
range_bounds(w) == copy_object(w.range_bounds)

\* AdjustableRangeSlider._min_edited
min_edited(w) ==
    LET new_min == IntOfText(w.range_min_line_edit)
    IN  IF new_min > w.range.max \/ ~contains(w.range_bounds, NumArg(Num(new_min)))
        THEN Done([w EXCEPT !.range_min_line_edit = StrOfInt(w.range.min)], 0)
        ELSE LET r == min_setter(w.range, Num(new_min))
             IN  IF r.exc # "None"
                 THEN Raised(w, r.exc)
                 ELSE Done([w EXCEPT !.range = r.obj,
                                     !.slider = setRange(w.slider, r.obj.min, r.obj.max)], 1)

\* AdjustableRangeSlider._max_edited
max_edited(w) ==
    LET new_max == IntOfText(w.range_max_line_edit)
    IN  IF new_max < w.range.min \/ ~contains(w.range_bounds, NumArg(Num(new_max)))
        THEN Done([w EXCEPT !.range_max_line_edit = StrOfInt(w.range.max)], 0)
        ELSE LET r == max_setter(w.range, Num(new_max))
             IN  IF r.exc # "None"
                 THEN Raised(w, r.exc)
                 ELSE Done([w EXCEPT !.range = r.obj,
                                     !.slider = setRange(w.slider, r.obj.min, r.obj.max)], 1)

\* set_range whose stretching branch replaces the bounds by the new range
set_range_stretch_replaces(w, min_, max_, stretch_bounds, emit) ==
    LET new_range == InclusiveInterval(Num(min_), Num(max_))
        n == IF emit THEN 1 ELSE 0
    IN  IF new_range.exc # "None"
        THEN Raised(w, new_range.exc)
        ELSE IF stretch_bounds
             THEN Done(update_widgets([w EXCEPT !.range = new_range.obj,
                                                !.range_bounds = new_range.obj]), n)
             ELSE IF contains(w.range_bounds, IntervalArg(new_range.obj))
                  THEN Done(update_widgets([w EXCEPT !.range = new_range.obj]), n)
                  ELSE Raised(w, "ValueError")

\* AdjustableRangeSlider.set_range
set_range(w, min_, max_, stretch_bounds, emit) ==
    LET new_range == InclusiveInterval(Num(min_), Num(max_))
        n == IF emit THEN 1 ELSE 0
    IN  IF new_range.exc # "None"
        THEN Raised(w, new_range.exc)
        ELSE IF stretch_bounds
             THEN LET b == normalize(w.range_bounds, IntervalArg(new_range.obj), None)
                      w1 == [w EXCEPT !.range = new_range.obj, !.range_bounds = b.obj]
                  IN  IF b.exc # "None"
                      THEN Raised(w1, b.exc)
                      ELSE Done(update_widgets(w1), n)
             ELSE IF contains(w.range_bounds, IntervalArg(new_range.obj))
                  THEN Done(update_widgets([w EXCEPT !.range = new_range.obj]), n)
                  ELSE Raised(w, "ValueError")

\* set_range_bounds that clips the range into the new bounds
set_range_bounds_clips(w, min_, max_, emit) ==
    LET new_bounds == InclusiveInterval(Num(min_), Num(max_))
        n == IF emit THEN 1 ELSE 0
        clip(x) == IF x < new_bounds.obj.min
                   THEN new_bounds.obj.min
                   ELSE IF x > new_bounds.obj.max THEN new_bounds.obj.max ELSE x
    IN  IF new_bounds.exc # "None"
        THEN Raised(w, new_bounds.exc)
        ELSE IF eq(new_bounds.obj, w.range_bounds)
             THEN Done(w, 0)
             ELSE Done(update_widgets(
                           [w EXCEPT !.range_bounds = new_bounds.obj,
                                     !.range = [min |-> clip(w.range.min),
                                                max |-> clip(w.range.max)]]), n)

\* AdjustableRangeSlider.set_range_bounds
set_range_bounds(w, min_, max_, emit) ==
    LET new_bounds == InclusiveInterval(Num(min_), Num(max_))
        n == IF emit THEN 1 ELSE 0
    IN  IF new_bounds.exc # "None"
        THEN Raised(w, new_bounds.exc)
        ELSE IF eq(new_bounds.obj, w.range_bounds)
             THEN Done(w, 0)
             ELSE LET r == normalize(w.range, IntervalArg(new_bounds.obj), None)
                      w1 == [w EXCEPT !.range_bounds = new_bounds.obj, !.range = r.obj]
                  IN  IF r.exc # "None"
                      THEN Raised(w1, r.exc)
                      ELSE Done(update_widgets(w1), n)

(***************************************************************************)
(* Files, os.path and cv2.VideoCapture                                     *)
(* A path is a sequence of characters without a directory separator.       *)
(***************************************************************************)
\* the largest number of frames of a video file
MaxFrames == 2

\* str.lower on the letters the paths of the model are written with
UpperCase == <<"A", "I", "M", "P", "V">>

LowerCase == <<"a", "i", "m", "p", "v">>

lower(string) ==
    [i \in 1..Len(string) |->
        IF \E j \in 1..Len(UpperCase) : UpperCase[j] = string[i]
        THEN LowerCase[CHOOSE j \in 1..Len(UpperCase) : UpperCase[j] = string[i]]
        ELSE string[i]]

\* os.path.splitext: the extension starts at the last dot, unless only dots
\* come before it
splitext(p) ==
    LET dots == {i \in 1..Len(p) : p[i] = "."}
        dotIndex == IF dots = {} THEN 0 ELSE CHOOSE i \in dots : \A j \in dots : j <= i
    IN  IF dotIndex > 0 /\ \E i \in 1..(dotIndex - 1) : p[i] # "."
        THEN <<SubSeq(p, 1, dotIndex - 1), SubSeq(p, dotIndex, Len(p))>>
        ELSE <<p, <<>>>>

\* VideoSkimmer.supported_video_ext
supported_video_ext == {<<".", "m", "p", "4">>, <<".", "a", "v", "i">>}

\* is_supported_file that finds every file supported
is_supported_file_any(path) == TRUE

\* VideoSkimmer.is_supported_file
is_supported_file(path) == lower(splitext(path)[2]) \in supported_video_ext

\* the files on disk: videos of 1..MaxFrames frames whose codec reports the
\* frame count (named n.mp4 or n.AVI), videos of 1 frame and of MaxFrames
\* frames whose codec reports 0 frames (named cn.avi), a video with an
\* extension that is not supported and a video whose whole name is ".mp4"
FileSystem ==
    {[path |-> StrNat(n) \o (IF n % 2 = 1 THEN <<".", "m", "p", "4">>
                                          ELSE <<".", "A", "V", "I">>),
      reported |-> n, actual |-> n] : n \in 1..MaxFrames}
        \cup {[path |-> <<"c">> \o StrNat(k) \o <<".", "a", "v", "i">>,
               reported |-> 0, actual |-> k] : k \in {1, MaxFrames}}
        \cup {[path |-> <<"d", ".", "m", "o", "v">>, reported |-> 1, actual |-> 1],
              [path |-> <<".", "m", "p", "4">>, reported |-> 1, actual |-> 1]}

\* the paths handed to set_video: the files on disk and two that are not
Paths ==
    {f.path : f \in FileSystem}
        \cup {<<"e", ".", "m", "p", "4">>, <<"e", ".", "m", "o", "v">>}

\* os.path.exists
exists(path) == \E f \in FileSystem : f.path = path

File(path) == CHOOSE f \in FileSystem : f.path = path

\* Python's None where a path, a video, a frame or a pixmap is expected
NoPath == [t |-> "None", v |-> <<>>]

NoVideo == [t |-> "None", path |-> <<>>, pos |-> 0]

NoFrame == [t |-> "None", path |-> <<>>, index |-> 0]

\* cv2.VideoCapture(path): an opened video and the index of its next frame
VideoCapture(path) == [t |-> "VideoCapture", path |-> path, pos |-> 0]

\* VideoCapture.get(cv2.CAP_PROP_FRAME_COUNT): a float
get_frame_count(video) == Num(File(video.path).reported)

\* VideoCapture.set(cv2.CAP_PROP_POS_FRAMES, n)
set_pos_frames(video, n) == [video EXCEPT !.pos = n]

\* VideoCapture.read(): the video after the read and the 2-tuple (ret, frame)
\* it returns
read(video) ==
    IF 0 <= video.pos /\ video.pos < File(video.path).actual
    THEN [video |-> [video EXCEPT !.pos = @ + 1],
          result |-> <<[t |-> "bool", v |-> TRUE],
                       [t |-> "frame", path |-> video.path, index |-> video.pos]>>]
    ELSE [video |-> video,
          result |-> <<[t |-> "bool", v |-> FALSE], NoFrame>>]

\* misc.frame2pixmap: cv2.cvtColor raises for a frame that is None
frame2pixmap(frame) ==
    IF frame.t = "None" THEN Raise(NoFrame, "cv2.error") ELSE Ok(frame)

(***************************************************************************)
(* QSpinBox (Qt): minimum, maximum and value                               *)
(***************************************************************************)
\* QSpinBox's maximum after construction
QSpinBoxDefaultMaximum == 99

\* a QSpinBox as constructed
QSpinBox == [minimum |-> 0, maximum |-> QSpinBoxDefaultMaximum, value |-> 0]

\* qBound
Bound(v, lo, hi) == IF v < lo THEN lo ELSE IF v > hi THEN hi ELSE v

(***************************************************************************)
(* video_skimmer.VideoSkimmer                                              *)
(* A method works on a record x: the widget x.s, the exception x.exc that  *)
(* is propagating ("None" if none is), and what the call has done so far:  *)
(* x.reads calls of VideoCapture.read, x.shown calls of set_pixmap,        *)
(* x.hook exceptions that left a slot, x.steps slots entered, x.unsynced   *)
(* calls of set_frame by a handler while the two controls are apart.  Qt   *)
(* calls a connected slot inside the emitting call.  An exception that     *)
(* leaves a slot does not reach the emitter: it is handed to               *)
(* sys.excepthook and the emitting call goes on.  A call that enters more  *)
(* than MaxSlots slots is cut short and marked x.cut.                      *)
(***************************************************************************)
\* the slots one call may enter
MaxSlots == 12

\* VideoSkimmer.__init__
VideoSkimmer ==
    [video_path |-> NoPath,
     video |-> NoVideo,
     current_frame |-> 0 - 1,
     total_frames |-> 0,
     frame_preview |-> NoFrame,
     frame_slider |-> AdjustableRangeSlider,
     frame_spinbox |-> QSpinBox]

\* the start of a call on the widget s
Enter(s) ==
    [s |-> s, exc |-> "None", reads |-> 0, shown |-> 0, hook |-> 0,
     steps |-> 0, cut |-> FALSE, unsynced |-> 0]

\* the call goes on: nothing propagates and it has not been cut short
Live(x) == x.exc = "None" /\ ~x.cut

\* the return of a slot to the signal that called it
Caught(y) ==
    IF y.exc # "None" THEN [y EXCEPT !.exc = "None", !.hook = @ + 1] ELSE y

\* has_video that finds a video whatever was selected
has_video_always(s) == TRUE

\* VideoSkimmer.has_video
has_video(s) == s.video_path.t # "None" /\ s.video.t # "None"

\* get_largest_frame that returns the number of frames
get_largest_frame_is_count(s) == s.total_frames

\* VideoSkimmer.get_largest_frame
get_largest_frame(s) == s.total_frames - 1

\* VideoSkimmer.in_frame_range
in_frame_range(s, frame_num) ==
    contains(range(s.frame_slider).obj, NumArg(Num(frame_num)))

\* VideoSkimmer.update_preview
update_preview(x) ==
    IF ~Live(x)
    THEN x
    ELSE IF x.s.video.t = "None"
         THEN [x EXCEPT !.exc = "AttributeError"]
         ELSE LET r == read(set_pos_frames(x.s.video, x.s.current_frame))
                  x1 == [x EXCEPT !.s.video = r.video, !.reads = @ + 1]
                  pm == frame2pixmap(r.result[2])
              IN  IF pm.exc # "None"
                  THEN [x1 EXCEPT !.exc = pm.exc]
                  ELSE [x1 EXCEPT !.s.frame_preview = pm.obj, !.shown = @ + 1]

\* a handler is about to call set_frame: x.unsynced counts the times the
\* slider and the spin control show different values at that moment
Delegating(x) ==
    IF Live(x) /\ x.s.frame_slider.slider.value # x.s.frame_spinbox.value
    THEN [x EXCEPT !.unsynced = @ + 1]
    ELSE x

RECURSIVE spin_setValue(_, _)
RECURSIVE slider_setValue(_, _)
RECURSIVE on_frame_spinbox_change(_)
RECURSIVE on_frame_slider_change(_)
RECURSIVE set_frame(_, _, _, _)

\* frame_spinbox.valueChanged, connected to _on_frame_spinbox_change
spin_valueChanged(x) ==
    IF x.steps >= MaxSlots
    THEN [x EXCEPT !.cut = TRUE]
    ELSE Caught(on_frame_spinbox_change([x EXCEPT !.steps = @ + 1]))

\* frame_slider.slider.valueChanged, connected to _on_frame_slider_change
slider_valueChanged(x) ==
    IF x.steps >= MaxSlots
    THEN [x EXCEPT !.cut = TRUE]
    ELSE Caught(on_frame_slider_change([x EXCEPT !.steps = @ + 1]))

\* a spin control that emits valueChanged on every setValue
spin_setValue_emits_always(x, v) ==
    IF ~Live(x)
    THEN x
    ELSE LET sp == x.s.frame_spinbox
         IN  spin_valueChanged(
                 [x EXCEPT !.s.frame_spinbox.value = Bound(v, sp.minimum, sp.maximum)])

\* QSpinBox.setValue: the value is bounded by the range and valueChanged is
\* emitted if the value changes
spin_setValue(x, v) ==
    IF ~Live(x)
    THEN x
    ELSE LET sp == x.s.frame_spinbox
             b == Bound(v, sp.minimum, sp.maximum)
         IN  IF b = sp.value
             THEN x
             ELSE spin_valueChanged([x EXCEPT !.s.frame_spinbox.value = b])

\* QSlider.setValue: the value is bounded by the range and valueChanged is
\* emitted if the value changes
slider_setValue(x, v) ==
    IF ~Live(x)
    THEN x
    ELSE LET sl == x.s.frame_slider.slider
             b == Bound(v, sl.minimum, sl.maximum)
         IN  IF b = sl.value
             THEN x
             ELSE slider_valueChanged([x EXCEPT !.s.frame_slider.slider.value = b])

\* VideoSkimmer._on_frame_slider_change
on_frame_slider_change(x) ==
    LET new_val == x.s.frame_slider.slider.value
    IN  set_frame(Delegating(spin_setValue(x, new_val)), new_val, TRUE, TRUE)

\* _on_frame_spinbox_change that leaves the slider as it is
on_frame_spinbox_change_leaves_slider(x) ==
    LET new_val == x.s.frame_spinbox.value
    IN  set_frame(Delegating(x), new_val, TRUE, TRUE)

\* VideoSkimmer._on_frame_spinbox_change
on_frame_spinbox_change(x) ==
    LET new_val == x.s.frame_spinbox.value
    IN  set_frame(Delegating(slider_setValue(x, new_val)), new_val, TRUE, TRUE)

\* VideoSkimmer.set_frame
set_frame(x, frame_num, assume_closest, autoupdate_preview) ==
    IF ~Live(x) \/ ~has_video(x.s)
    THEN x
    ELSE LET r == range(x.s.frame_slider).obj
             closest == IF frame_num < r.min
                        THEN r.min
                        ELSE IF frame_num > r.max THEN r.max ELSE frame_num
         IN  IF ~assume_closest /\ ~contains(r, NumArg(Num(frame_num)))
             THEN [x EXCEPT !.exc = "ValueError"]
             ELSE LET n == IF assume_closest THEN closest ELSE frame_num
                      x1 == spin_setValue([x EXCEPT !.s.current_frame = n], n)
                  IN  IF autoupdate_preview THEN update_preview(x1) ELSE x1

\* next_frame that asks set_frame for the next frame in strict mode
next_frame_strict(x, autoupdate_preview) ==
    set_frame(x, x.s.current_frame + 1, FALSE, autoupdate_preview)

\* VideoSkimmer.next_frame
next_frame(x, autoupdate_preview) ==
    IF ~in_frame_range(x.s, x.s.current_frame + 1)
    THEN x
    ELSE set_frame(x, x.s.current_frame + 1, TRUE, autoupdate_preview)

\* VideoSkimmer.prev_frame
prev_frame(x, autoupdate_preview) ==
    IF ~in_frame_range(x.s, x.s.current_frame - 1)
    THEN x
    ELSE set_frame(x, x.s.current_frame - 1, TRUE, autoupdate_preview)

\* QSpinBox.setRange: the maximum is raised to the minimum, the value is
\* bounded by the new range and valueChanged is emitted if it changes
spin_setRange(x, mn, mx) ==
    IF ~Live(x)
    THEN x
    ELSE LET sp == setRange(x.s.frame_spinbox, mn, mx)
             x1 == [x EXCEPT !.s.frame_spinbox = sp]
         IN  IF sp.value = x.s.frame_spinbox.value THEN x1 ELSE spin_valueChanged(x1)

\* QSlider.setRange on the frame slider: valueChanged is emitted if the new
\* range changes the value
slider_setRange(x, mn, mx) ==
    IF ~Live(x)
    THEN x
    ELSE LET sl == setRange(x.s.frame_slider.slider, mn, mx)
             x1 == [x EXCEPT !.s.frame_slider.slider = sl]
         IN  IF sl.value = x.s.frame_slider.slider.value
             THEN x1
             ELSE slider_valueChanged(x1)

\* VideoSkimmer._sync_spinbox
sync_spinbox(x) ==
    spin_setRange(x, range(x.s.frame_slider).obj.min, range(x.s.frame_slider).obj.max)

\* frame_slider.rangeChanged, connected to _sync_spinbox
rangeChanged(x) ==
    IF ~Live(x)
    THEN x
    ELSE IF x.steps >= MaxSlots
         THEN [x EXCEPT !.cut = TRUE]
         ELSE Caught(sync_spinbox([x EXCEPT !.steps = @ + 1]))

\* AdjustableRangeSlider._update_widgets on the frame slider
frame_slider_update_widgets(x) ==
    IF ~Live(x)
    THEN x
    ELSE LET w == x.s.frame_slider
         IN  slider_setRange(
                 [x EXCEPT !.s.frame_slider.range_min_line_edit = StrOfInt(w.range.min),
                           !.s.frame_slider.range_max_line_edit = StrOfInt(w.range.max)],
                 w.range.min, w.range.max)

\* the end of set_range and of set_range_bounds on the frame slider, from the
\* assignments r.w they made: rangeChanged is emitted, then the widgets are
\* updated; a call that raised or returned early does neither
frame_slider_changed(x, r) ==
    IF r.exc # "None"
    THEN [x EXCEPT !.s.frame_slider = r.w, !.exc = r.exc]
    ELSE IF r.emitted = 0
         THEN x
         ELSE frame_slider_update_widgets(
                  rangeChanged([x EXCEPT !.s.frame_slider.range = r.w.range,
                                         !.s.frame_slider.range_bounds = r.w.range_bounds]))

\* self._frame_slider.set_range(min_, max_)
frame_slider_set_range(x, min_, max_) ==
    IF ~Live(x)
    THEN x
    ELSE frame_slider_changed(x, set_range(x.s.frame_slider, min_, max_, FALSE, TRUE))

\* self._frame_slider.set_range_bounds(min_, max_)
frame_slider_set_range_bounds(x, min_, max_) ==
    IF ~Live(x)
    THEN x
    ELSE frame_slider_changed(x, set_range_bounds(x.s.frame_slider, min_, max_, TRUE))

\* the end of _min_edited and of _max_edited on the frame slider, from the
\* assignments r.w they made: a rejected text is reset; an accepted one sets
\* the slider's range, then rangeChanged is emitted
frame_slider_edited(x, r) ==
    IF r.exc # "None"
    THEN [x EXCEPT !.s.frame_slider = r.w, !.exc = r.exc]
    ELSE IF r.emitted = 0
         THEN [x EXCEPT !.s.frame_slider = r.w]
         ELSE rangeChanged(
                  slider_setRange(
                      [x EXCEPT !.s.frame_slider.range = r.w.range,
                                !.s.frame_slider.range_min_line_edit = r.w.range_min_line_edit,
                                !.s.frame_slider.range_max_line_edit = r.w.range_max_line_edit],
                      r.w.range.min, r.w.range.max))

\* Python's `a or default` on an argument that is None or a number
or_default(a, default) ==
    IF a.t = "None" \/ a.v = 0 THEN default ELSE a.v

\* VideoSkimmer.set_frame_range: new_range is unpacked with __getitem__
set_frame_range(x, start, stop) ==
    IF ~Live(x)
    THEN x
    ELSE LET new_range == InclusiveInterval(or_default(start, Num(0)),
                                            or_default(stop, Num(get_largest_frame(x.s))))
         IN  IF new_range.exc # "None"
             THEN [x EXCEPT !.exc = new_range.exc]
             ELSE spin_setRange(
                      frame_slider_set_range(x, new_range.obj.min, new_range.obj.max),
                      new_range.obj.min, new_range.obj.max)

\* `ret, = self._video.read()` and the loop on ret in set_video: the tuple
\* read returns is unpacked into one name
RECURSIVE count_frames(_)

count_frames(x) ==
    LET r == read(x.s.video)
        x1 == [x EXCEPT !.s.video = r.video, !.reads = @ + 1]
    IN  IF Len(r.result) # 1
        THEN [x1 EXCEPT !.exc = "ValueError"]
        ELSE IF r.result[1].v
             THEN count_frames([x1 EXCEPT !.s.total_frames = @ + 1])
             ELSE x1

\* VideoSkimmer.set_video
set_video(x, video_path) ==
    IF ~exists(video_path)
    THEN [x EXCEPT !.exc = "FileNotFoundError"]
    ELSE IF ~is_supported_file(video_path)
         THEN [x EXCEPT !.exc = "ValueError"]
         ELSE LET video == VideoCapture(video_path)
                  x1 == [x EXCEPT !.s.video_path = [t |-> "str", v |-> video_path],
                                  !.s.video = video,
                                  !.s.total_frames = ToInt(get_frame_count(video))]
                  x2 == IF x1.s.total_frames = 0 THEN count_frames(x1) ELSE x1
                  x3 == frame_slider_set_range_bounds(x2, 0, get_largest_frame(x2.s))
              IN  set_frame(set_frame_range(x3, None, None), 0, TRUE, TRUE)

\* no call has been made on the VideoSkimmer
NoSkimmerCall ==
    [op |-> "none", path |-> <<>>, start |-> None, stop |-> None, frame_num |-> 0,
     assume_closest |-> TRUE, autoupdate_preview |-> TRUE, value |-> 0,
     text |-> <<>>, exc |-> "None", reads |-> 0, shown |-> 0, hook |-> 0,
     steps |-> 0, cut |-> FALSE, unsynced |-> 0]

(***************************************************************************)
(* misc.to_os_dir_sep                                                      *)
(* A path is a sequence of characters; os.path.sep is "/" on a POSIX host  *)
(* and "\" on Windows.                                                     *)
(***************************************************************************)
\* the longest path handed to to_os_dir_sep
MaxPathLen == 4

win_sep == "\\"

unix_sep == "/"

\* the values os.path.sep has on the hosts
os_path_seps == {unix_sep, win_sep}

\* the characters paths are written with
PathChars == {"a", unix_sep, win_sep}

\* the paths handed to to_os_dir_sep
PathStrings == UNION {[1..n -> PathChars] : n \in 0..MaxPathLen}

\* `c in path` for a character c
in_path(c, path) == \E i \in 1..Len(path) : path[i] = c

\* str.split(sep) for a separator of one character: the pieces between the
\* occurrences of sep, empty pieces included
RECURSIVE split(_, _)

split(string, sep) ==
    IF ~in_path(sep, string)
    THEN <<string>>
    ELSE LET i == CHOOSE k \in 1..Len(string) :
                      string[k] = sep /\ \A j \in 1..(k - 1) : string[j] # sep
         IN  <<SubSeq(string, 1, i - 1)>> \o split(SubSeq(string, i + 1, Len(string)), sep)

\* sep.join(parts)
RECURSIVE join(_, _)

join(sep, parts) ==
    IF parts = <<>>
    THEN <<>>
    ELSE IF Len(parts) = 1
         THEN parts[1]
         ELSE parts[1] \o <<sep>> \o join(sep, Tail(parts))

\* to_os_dir_sep that always splits at the forward slash
to_os_dir_sep_splits_at_slash(path, os_path_sep) ==
    IF in_path(win_sep, path) /\ in_path(unix_sep, path)
    THEN Raise(path, "ValueError")
    ELSE Ok(join(os_path_sep, split(path, unix_sep)))

\* misc.to_os_dir_sep on a host whose os.path.sep is os_path_sep: obj is the
\* string returned
to_os_dir_sep(path, os_path_sep) ==
    IF in_path(win_sep, path) /\ in_path(unix_sep, path)
    THEN Raise(path, "ValueError")
    ELSE LET sep == IF in_path(win_sep, path) THEN win_sep ELSE unix_sep
         IN  Ok(join(os_path_sep, split(path, sep)))

\* to_os_dir_sep has not been called
NoPathCall == [op |-> "none", path |-> <<>>, os_path_sep |-> unix_sep,
               result |-> <<>>, exc |-> "None"]

(***************************************************************************)
(* The state after construction                                            *)
(***************************************************************************)
NoCall == [op |-> "none", a |-> None, b |-> None, exc |-> "None"]

NoWidgetCall ==
    [op |-> "none", min_ |-> 0, max_ |-> 0, stretch_bounds |-> FALSE,
     emit |-> FALSE, text |-> <<>>, exc |-> "None", emitted |-> 0]

\* no interval has been read from the widget
NoGot == [of |-> "none", ref |-> "none", obj |-> [min |-> 0, max |-> 0]]

Init ==
    /\ I = InclusiveInterval(Num(0), Num(0)).obj
    /\ Ipre = I
    /\ Icall = NoCall
    /\ ars = AdjustableRangeSlider
    /\ pre = ars
    /\ call = NoWidgetCall
    /\ K = I
    /\ Kpre = I
    /\ kref = "none"
    /\ got = NoGot
    /\ vs = VideoSkimmer
    /\ vpre = vs
    /\ vcall = NoSkimmerCall
    /\ pcall = NoPathCall

(***************************************************************************)
(* Calls on the interval I                                                 *)
(***************************************************************************)
ICalled(op, a, b, r) ==
    /\ I' = r.obj
    /\ Ipre' = I
    /\ Icall' = [op |-> op, a |-> a, b |-> b, exc |-> r.exc]
    /\ UNCHANGED <<ars, pre, call, K, Kpre, kref, got, skimmer, pcall>>

\* I = InclusiveInterval(a, b): the name is rebound only if no exception escapes
IConstruct ==
    \E a \in Nums, b \in Nums :
        LET r == InclusiveInterval(a, b)
        IN  ICalled("construct", NumArg(a), NumArg(b),
                    IF r.exc # "None" THEN Raise(I, r.exc) ELSE r)

\* I.set(a, b)
ISet ==
    \E a \in Nums, b \in Nums :
        ICalled("set", NumArg(a), NumArg(b), set(I, a, b))

\* I.min = v
IMin == \E v \in Nums : ICalled("min", NumArg(v), None, min_setter(I, v))

\* I.max = v
IMax == \E v \in Nums : ICalled("max", NumArg(v), None, max_setter(I, v))

\* I.normalize(a, b) with two numbers
INormalizeNums ==
    \E a \in Nums, b \in Nums :
        ICalled("normalize", NumArg(a), NumArg(b), normalize(I, NumArg(a), NumArg(b)))

\* I.normalize(a) with one number
INormalizeNoMax ==
    \E a \in Nums : ICalled("normalize", NumArg(a), None, normalize(I, NumArg(a), None))

\* I.normalize(J) with an interval
INormalizeInterval ==
    \E J \in Intervals :
        ICalled("normalize", IntervalArg(J), None, normalize(I, IntervalArg(J), None))

NextInterval ==
    \/ IConstruct
    \/ ISet
    \/ IMin
    \/ IMax
    \/ INormalizeNums
    \/ INormalizeNoMax
    \/ INormalizeInterval

SpecInterval == Init /\ [][NextInterval]_vars

(***************************************************************************)
(* Calls on the widget ars                                                 *)
(***************************************************************************)
Called(c, r) ==
    /\ ars' = r.w
    /\ pre' = ars
    /\ call' = [c EXCEPT !.exc = r.exc, !.emitted = r.emitted]
    /\ UNCHANGED <<I, Ipre, Icall, K, Kpre, kref, got, skimmer, pcall>>

\* ars.set_range(min_, max_, stretch_bounds=..., emit=...)
SetRange ==
    \E min_ \in Vals, max_ \in Vals, stretch_bounds \in BOOLEAN, emit \in BOOLEAN :
        Called([NoWidgetCall EXCEPT !.op = "set_range", !.min_ = min_, !.max_ = max_,
                                    !.stretch_bounds = stretch_bounds, !.emit = emit],
               set_range(ars, min_, max_, stretch_bounds, emit))

\* ars.set_range_bounds(min_, max_, emit=...)
SetRangeBounds ==
    \E min_ \in Vals, max_ \in Vals, emit \in BOOLEAN :
        Called([NoWidgetCall EXCEPT !.op = "set_range_bounds", !.min_ = min_,
                                    !.max_ = max_, !.emit = emit],
               set_range_bounds(ars, min_, max_, emit))

\* the user leaves text in the min field and commits it: editingFinished is
\* emitted only for a text the validator finds Acceptable
MinEdited ==
    \E text \in TypedTexts :
        /\ validate(text) = "Acceptable"
        /\ Called([NoWidgetCall EXCEPT !.op = "min_edited", !.text = text],
                  min_edited([ars EXCEPT !.range_min_line_edit = text]))

\* the user leaves text in the max field and commits it
MaxEdited ==
    \E text \in TypedTexts :
        /\ validate(text) = "Acceptable"
        /\ Called([NoWidgetCall EXCEPT !.op = "max_edited", !.text = text],
                  max_edited([ars EXCEPT !.range_max_line_edit = text]))

Next ==
    \/ SetRange
    \/ SetRangeBounds
    \/ MinEdited
    \/ MaxEdited

Spec == Init /\ [][Next]_vars

(***************************************************************************)
(* Copies.  Python names are bound to objects: the caller's name I is      *)
(* bound to one object and k = I.copy() to the object copy returned, which *)
(* is I's own object (kref = "self") or a new one (kref = "new", held in   *)
(* K).  A call through a name mutates the object the name is bound to.     *)
(***************************************************************************)
\* the interval the name k shows
KValue == IF kref = "self" THEN I ELSE K

\* the numbers offered to calls on I and k: the Python ints of IVals
CopyNums == {Num(n) : n \in IVals}

\* the outcome of a mutating call on the interval obj
Mutation(obj, op, a, b) ==
    IF op = "set"
    THEN set(obj, a, b)
    ELSE IF op = "min" THEN min_setter(obj, a) ELSE max_setter(obj, a)

\* k = I.copy()
CCopy ==
    LET r == copy_object(I)
    IN  /\ kref' = r.ref
        /\ K' = IF r.ref = "new" THEN r.obj ELSE K
        /\ Kpre' = KValue
        /\ Ipre' = I
        /\ Icall' = [op |-> "copy", a |-> None, b |-> None, exc |-> "None"]
        /\ UNCHANGED <<I, ars, pre, call, got, skimmer, pcall>>

\* a mutating call through the name I
CMutateOriginal ==
    \E op \in {"set", "min", "max"}, a \in CopyNums, b \in CopyNums :
        LET r == Mutation(I, op, a, b)
        IN  /\ kref # "none"
            /\ op # "set" => b = a
            /\ I' = r.obj
            /\ Ipre' = I
            /\ Kpre' = KValue
            /\ Icall' = [op |-> "I." \o op, a |-> NumArg(a), b |-> NumArg(b), exc |-> r.exc]
            /\ UNCHANGED <<K, kref, ars, pre, call, got, skimmer, pcall>>

\* a mutating call through the name k
CMutateCopy ==
    \E op \in {"set", "min", "max"}, a \in CopyNums, b \in CopyNums :
        LET r == Mutation(KValue, op, a, b)
        IN  /\ kref # "none"
            /\ op # "set" => b = a
            /\ I' = IF kref = "self" THEN r.obj ELSE I
            /\ K' = IF kref = "new" THEN r.obj ELSE K
            /\ Ipre' = I
            /\ Kpre' = KValue
            /\ Icall' = [op |-> "k." \o op, a |-> NumArg(a), b |-> NumArg(b), exc |-> r.exc]
            /\ UNCHANGED <<kref, ars, pre, call, got, skimmer, pcall>>

NextCopy ==
    \/ CCopy
    \/ CMutateOriginal
    \/ CMutateCopy

(***************************************************************************)
(* Reading ars.range and ars.range_bounds.  got.ref tells whether the      *)
(* caller holds the widget's own interval ("self") or another object       *)
(* ("new", whose bounds are got.obj).                                      *)
(***************************************************************************)
\* the interval the caller's name shows
GotValue ==
    IF got.ref = "self"
    THEN IF got.of = "range" THEN ars.range ELSE ars.range_bounds
    ELSE got.obj

\* r = ars.range
PGetRange ==
    LET r == range(ars)
    IN  /\ got' = [of |-> "range", ref |-> r.ref, obj |-> r.obj]
        /\ pre' = ars
        /\ call' = [NoWidgetCall EXCEPT !.op = "range"]
        /\ UNCHANGED <<ars, I, Ipre, Icall, K, Kpre, kref, skimmer, pcall>>

\* r = ars.range_bounds
PGetRangeBounds ==
    LET r == range_bounds(ars)
    IN  /\ got' = [of |-> "range_bounds", ref |-> r.ref, obj |-> r.obj]
        /\ pre' = ars
        /\ call' = [NoWidgetCall EXCEPT !.op = "range_bounds"]
        /\ UNCHANGED <<ars, I, Ipre, Icall, K, Kpre, kref, skimmer, pcall>>

\* a mutating call on the interval the caller read
PMutateGot ==
    \E op \in {"set", "min", "max"}, a \in Vals, b \in Vals :
        LET r == Mutation(GotValue, op, Num(a), Num(b))
        IN  /\ got.of # "none"
            /\ op # "set" => b = a
            /\ got' = IF got.ref = "new" THEN [got EXCEPT !.obj = r.obj] ELSE got
            /\ ars' = IF got.ref = "self"
                      THEN IF got.of = "range"
                           THEN [ars EXCEPT !.range = r.obj]
                           ELSE [ars EXCEPT !.range_bounds = r.obj]
                      ELSE ars
            /\ pre' = ars
            /\ call' = [NoWidgetCall EXCEPT !.op = "mutate", !.min_ = a, !.max_ = b,
                                            !.text = <<op>>, !.exc = r.exc]
            /\ UNCHANGED <<I, Ipre, Icall, K, Kpre, kref, skimmer, pcall>>

\* a call of set_range or set_range_bounds, after which the caller reads anew
PSetRange ==
    \E min_ \in Vals, max_ \in Vals, stretch_bounds \in BOOLEAN :
        LET r == set_range(ars, min_, max_, stretch_bounds, TRUE)
        IN  /\ ars' = r.w
            /\ pre' = ars
            /\ got' = NoGot
            /\ call' = [NoWidgetCall EXCEPT !.op = "set_range", !.min_ = min_,
                                            !.max_ = max_, !.emit = TRUE,
                                            !.stretch_bounds = stretch_bounds,
                                            !.exc = r.exc, !.emitted = r.emitted]
            /\ UNCHANGED <<I, Ipre, Icall, K, Kpre, kref, skimmer, pcall>>

PSetRangeBounds ==
    \E min_ \in Vals, max_ \in Vals :
        LET r == set_range_bounds(ars, min_, max_, TRUE)
        IN  /\ ars' = r.w
            /\ pre' = ars
            /\ got' = NoGot
            /\ call' = [NoWidgetCall EXCEPT !.op = "set_range_bounds", !.min_ = min_,
                                            !.max_ = max_, !.emit = TRUE,
                                            !.exc = r.exc, !.emitted = r.emitted]
            /\ UNCHANGED <<I, Ipre, Icall, K, Kpre, kref, skimmer, pcall>>

NextProperties ==
    \/ PGetRange
    \/ PGetRangeBounds
    \/ PMutateGot
    \/ PSetRange
    \/ PSetRangeBounds

\* The interval I and the widget ars share nothing, so a run works on one of
\* them: on I and its copy while the widget is untouched, or on the widget
\* while I is untouched.
SpecCopy ==
    Init /\ [][\/ (call.op = "none" /\ NextCopy)
               \/ (Icall.op = "none" /\ NextProperties)]_vars

(***************************************************************************)
(* Calls on the VideoSkimmer vs and what its user does                     *)
(***************************************************************************)
\* the frame numbers offered as arguments and typed by the user
FrameNums == (0 - 1)..MaxFrames

\* the start and stop arguments of set_frame_range
FrameArgs == {None} \cup {NumArg(Num(n)) : n \in FrameNums}

VCalled(c, y) ==
    /\ vs' = y.s
    /\ vpre' = vs
    /\ vcall' = [c EXCEPT !.exc = y.exc, !.reads = y.reads, !.shown = y.shown,
                          !.hook = y.hook, !.steps = y.steps, !.cut = y.cut,
                          !.unsynced = y.unsynced]
    /\ UNCHANGED <<I, Ipre, Icall, ars, pre, call, K, Kpre, kref, got, pcall>>

\* vs.set_video(path)
SetVideo ==
    \E path \in Paths :
        VCalled([NoSkimmerCall EXCEPT !.op = "set_video", !.path = path],
                set_video(Enter(vs), path))

\* vs.set_frame_range(start, stop)
SetFrameRange ==
    \E start \in FrameArgs, stop \in FrameArgs :
        VCalled([NoSkimmerCall EXCEPT !.op = "set_frame_range", !.start = start,
                                      !.stop = stop],
                set_frame_range(Enter(vs), start, stop))

\* vs.set_frame(frame_num, assume_closest, autoupdate_preview)
SetFrame ==
    \E frame_num \in FrameNums, assume_closest \in BOOLEAN, autoupdate_preview \in BOOLEAN :
        VCalled([NoSkimmerCall EXCEPT !.op = "set_frame", !.frame_num = frame_num,
                                      !.assume_closest = assume_closest,
                                      !.autoupdate_preview = autoupdate_preview],
                set_frame(Enter(vs), frame_num, assume_closest, autoupdate_preview))

\* vs.next_frame(autoupdate_preview)
NextFrame ==
    \E autoupdate_preview \in BOOLEAN :
        VCalled([NoSkimmerCall EXCEPT !.op = "next_frame",
                                      !.autoupdate_preview = autoupdate_preview],
                next_frame(Enter(vs), autoupdate_preview))

\* vs.prev_frame(autoupdate_preview)
PrevFrame ==
    \E autoupdate_preview \in BOOLEAN :
        VCalled([NoSkimmerCall EXCEPT !.op = "prev_frame",
                                      !.autoupdate_preview = autoupdate_preview],
                prev_frame(Enter(vs), autoupdate_preview))

\* the user moves the frame slider to another value of its range
SliderMoved ==
    \E value \in FrameNums :
        /\ vs.frame_slider.slider.minimum <= value
        /\ value <= vs.frame_slider.slider.maximum
        /\ value # vs.frame_slider.slider.value
        /\ VCalled([NoSkimmerCall EXCEPT !.op = "slider_moved", !.value = value],
                   slider_setValue(Enter(vs), value))

\* the user enters another value of the spin control's range
SpinEdited ==
    \E value \in FrameNums :
        /\ vs.frame_spinbox.minimum <= value
        /\ value <= vs.frame_spinbox.maximum
        /\ value # vs.frame_spinbox.value
        /\ VCalled([NoSkimmerCall EXCEPT !.op = "spin_edited", !.value = value],
                   spin_setValue(Enter(vs), value))

\* the user commits a number in the frame slider's min field
FrameMinEdited ==
    \E n \in FrameNums :
        VCalled([NoSkimmerCall EXCEPT !.op = "min_edited", !.text = StrOfInt(n)],
                Caught(frame_slider_edited(
                    Enter(vs),
                    min_edited([vs.frame_slider EXCEPT !.range_min_line_edit = StrOfInt(n)]))))

\* the user commits a number in the frame slider's max field
FrameMaxEdited ==
    \E n \in FrameNums :
        VCalled([NoSkimmerCall EXCEPT !.op = "max_edited", !.text = StrOfInt(n)],
                Caught(frame_slider_edited(
                    Enter(vs),
                    max_edited([vs.frame_slider EXCEPT !.range_max_line_edit = StrOfInt(n)]))))

NextSkimmer ==
    \/ SetVideo
    \/ SetFrameRange
    \/ SetFrame
    \/ NextFrame
    \/ PrevFrame
    \/ SliderMoved
    \/ SpinEdited
    \/ FrameMinEdited
    \/ FrameMaxEdited

SpecSkimmer == Init /\ [][NextSkimmer]_vars

(***************************************************************************)
(* Calls of to_os_dir_sep                                                  *)
(***************************************************************************)
\* to_os_dir_sep(path) on a POSIX or a Windows host
ToOsDirSep ==
    \E path \in PathStrings, os_path_sep \in os_path_seps :
        LET r == to_os_dir_sep(path, os_path_sep)
        IN  /\ pcall' = [op |-> "to_os_dir_sep", path |-> path,
                         os_path_sep |-> os_path_sep,
                         result |-> r.obj, exc |-> r.exc]
            /\ UNCHANGED <<I, Ipre, Icall, ars, pre, call, K, Kpre, kref, got, skimmer>>

NextPath == ToOsDirSep

SpecPath == Init /\ [][NextPath]_vars

(***************************************************************************)
(* Properties of InclusiveInterval, checked under SpecInterval             *)
(***************************************************************************)
MinOf(x, y) == IF x <= y THEN x ELSE y

MaxOf(x, y) == IF x >= y THEN x ELSE y

\* the last call on I raised
IRaised == Icall.exc # "None"

\* C2: min <= max holds for the interval in every reachable state, after
\* construction and after any sequence of set, min setter, max setter and
\* normalize calls, whether each call succeeds or raises.
C2_MinLeMax == I.min <= I.max

\* C2 witness: a normalize call with two numbers returned normally and
\* moved both ends of the interval
C2_Witness ==
    /\ Icall.op = "normalize"
    /\ Icall.a.t = "num"
    /\ ~IRaised
    /\ I.min < Ipre.min
    /\ I.max > Ipre.max

\* C3 as stated: set(a, b) and construction with a > b raise, the min setter
\* with v > max raises, the max setter with v < min raises, and each leaves
\* both bounds as they were.
C3_RaisesWhenArgumentsCross ==
    /\ (Icall.op \in {"set", "construct"} /\ Icall.a.v > Icall.b.v)
           => (IRaised /\ I = Ipre)
    /\ (Icall.op = "min" /\ Icall.a.v > Num(Ipre.max)) => (IRaised /\ I = Ipre)
    /\ (Icall.op = "max" /\ Icall.a.v < Num(Ipre.min)) => (IRaised /\ I = Ipre)

\* C3 amended: the arguments are cast with int() (truncation toward zero)
\* before they are compared.  set(a, b) and construction raise iff
\* int(a) > int(b) and otherwise set both bounds; the min setter raises iff
\* int(v) > max and the max setter iff int(v) < min; every call that raises
\* leaves both bounds as they were.
C3_RaisesWhenCastArgumentsCross ==
    /\ IRaised => I = Ipre
    /\ Icall.op \in {"set", "construct"} =>
           /\ IRaised <=> ToInt(Icall.a.v) > ToInt(Icall.b.v)
           /\ ~IRaised => I = [min |-> ToInt(Icall.a.v), max |-> ToInt(Icall.b.v)]
    /\ Icall.op = "min" =>
           /\ IRaised <=> ToInt(Icall.a.v) > Ipre.max
           /\ ~IRaised => I = [min |-> ToInt(Icall.a.v), max |-> Ipre.max]
    /\ Icall.op = "max" =>
           /\ IRaised <=> ToInt(Icall.a.v) < Ipre.min
           /\ ~IRaised => I = [min |-> Ipre.min, max |-> ToInt(Icall.a.v)]

\* C3 witness: set(a, b) raised on an interval that is not the initial one,
\* with a valid new minimum and a maximum below it
C3_Witness ==
    /\ Icall.op = "set"
    /\ IRaised
    /\ Ipre.min < Ipre.max
    /\ ToInt(Icall.a.v) > ToInt(Icall.b.v)
    /\ ToInt(Icall.a.v) # Ipre.min
    /\ ToInt(Icall.b.v) # Ipre.max

\* C4: after I.normalize(J) for an interval J, I contains J and is the
\* smallest interval containing the pre-call I and J; the call does not
\* raise and does not shrink I.
C4_NormalizeIsHull ==
    (Icall.op = "normalize" /\ Icall.a.t = "interval") =>
        /\ ~IRaised
        /\ contains(I, Icall.a)
        /\ contains(I, IntervalArg(Ipre))
        /\ I.min = MinOf(Ipre.min, Icall.a.v.min)
        /\ I.max = MaxOf(Ipre.max, Icall.a.v.max)

\* C4 witness: normalize(J) moved one end of I and kept the other
C4_Witness ==
    /\ Icall.op = "normalize"
    /\ Icall.a.t = "interval"
    /\ I.min = Icall.a.v.min
    /\ I.min < Ipre.min
    /\ I.max = Ipre.max
    /\ Icall.a.v.max < Ipre.max

(***************************************************************************)
(* Properties of AdjustableRangeSlider, checked under Spec                 *)
(***************************************************************************)
\* the interval [a, b]
Iv(a, b) == [min |-> a, max |-> b]

\* the smallest interval covering the intervals x and y
Hull(x, y) == Iv(MinOf(x.min, y.min), MaxOf(x.max, y.max))

\* the interval x lies inside the interval y
Inside(x, y) == y.min <= x.min /\ x.max <= y.max

\* the integer n lies inside the interval y
Within(n, y) == y.min <= n /\ n <= y.max

\* C1: the current range is contained in the range bounds after every call
\* of set_range, set_range_bounds and every min-field or max-field commit.
C1_RangeInsideBounds == Inside(ars.range, ars.range_bounds)

\* C5: set_range(min, max) without stretch_bounds succeeds iff min <= max
\* and [min, max] lies inside the bounds; then the range is exactly
\* [min, max] and the bounds are unchanged; otherwise it raises, the widget
\* (range, bounds, both fields, slider) is unchanged and rangeChanged is not
\* emitted.
C5_SetRangeChecksBounds ==
    (call.op = "set_range" /\ ~call.stretch_bounds) =>
        LET fits == /\ call.min_ <= call.max_
                    /\ Inside(Iv(call.min_, call.max_), pre.range_bounds)
        IN  /\ (call.exc = "None") <=> fits
            /\ fits => /\ ars.range = Iv(call.min_, call.max_)
                       /\ ars.range_bounds = pre.range_bounds
            /\ ~fits => /\ ars = pre
                        /\ call.emitted = 0

\* C5 witness: a well-ordered range outside the bounds was refused although
\* emit was set
C5_Witness ==
    /\ call.op = "set_range"
    /\ ~call.stretch_bounds
    /\ call.emit
    /\ call.min_ < call.max_
    /\ call.exc = "ValueError"
    /\ pre.range_bounds.min < pre.range_bounds.max

\* C6: set_range(min, max, stretch_bounds=True) with min <= max succeeds,
\* the range becomes exactly [min, max] and the bounds become the smallest
\* interval covering the previous bounds and [min, max].
C6_StretchWidensBounds ==
    (call.op = "set_range" /\ call.stretch_bounds /\ call.min_ <= call.max_) =>
        /\ call.exc = "None"
        /\ ars.range = Iv(call.min_, call.max_)
        /\ ars.range_bounds = Hull(pre.range_bounds, Iv(call.min_, call.max_))
        /\ Inside(pre.range_bounds, ars.range_bounds)

\* C6 witness: a stretching call whose range reached past the upper bound
\* and stayed above the lower one
C6_Witness ==
    /\ call.op = "set_range"
    /\ call.stretch_bounds
    /\ call.exc = "None"
    /\ call.max_ > pre.range_bounds.max
    /\ call.min_ > pre.range_bounds.min
    /\ ars.range_bounds # pre.range_bounds
    /\ ars.range_bounds # ars.range

\* C7: a committed min-field value c is accepted iff c <= range.max and c
\* lies within the bounds, a committed max-field value iff c >= range.min
\* and c lies within the bounds.  On acceptance only that end of the range
\* becomes c, the slider range follows and rangeChanged is emitted once; on
\* rejection the field shows the old value again and range, bounds and
\* slider are unchanged, with no emission.
C7_FieldCommit ==
    /\ call.op = "min_edited" =>
           LET c == IntOfText(call.text)
           IN  IF c <= pre.range.max /\ Within(c, pre.range_bounds)
               THEN /\ ars.range = Iv(c, pre.range.max)
                    /\ ars.range_bounds = pre.range_bounds
                    /\ ars.slider.minimum = c
                    /\ ars.slider.maximum = pre.range.max
                    /\ call.emitted = 1
                    /\ call.exc = "None"
               ELSE /\ ars = [pre EXCEPT !.range_min_line_edit = StrOfInt(pre.range.min)]
                    /\ call.emitted = 0
                    /\ call.exc = "None"
    /\ call.op = "max_edited" =>
           LET c == IntOfText(call.text)
           IN  IF c >= pre.range.min /\ Within(c, pre.range_bounds)
               THEN /\ ars.range = Iv(pre.range.min, c)
                    /\ ars.range_bounds = pre.range_bounds
                    /\ ars.slider.minimum = pre.range.min
                    /\ ars.slider.maximum = c
                    /\ call.emitted = 1
                    /\ call.exc = "None"
               ELSE /\ ars = [pre EXCEPT !.range_max_line_edit = StrOfInt(pre.range.max)]
                    /\ call.emitted = 0
                    /\ call.exc = "None"

\* C7 witness: after a min commit was accepted, a larger min that lies
\* within the bounds but above range.max was rejected and the field shows
\* the accepted value
C7_Witness ==
    /\ call.op = "min_edited"
    /\ call.emitted = 0
    /\ Within(IntOfText(call.text), pre.range_bounds)
    /\ IntOfText(call.text) > pre.range.max
    /\ pre.range.min > pre.range_bounds.min
    /\ ars.range_min_line_edit = StrOfInt(pre.range.min)
    /\ ars.range_min_line_edit # call.text

\* C8: set_range_bounds(min, max) with the bounds the widget already has
\* changes nothing and emits nothing, whatever emit is; with min > max it
\* raises and changes nothing.
C8_SameBoundsNoOp ==
    call.op = "set_range_bounds" =>
        /\ (call.min_ <= call.max_ /\ Iv(call.min_, call.max_) = pre.range_bounds) =>
               /\ call.exc = "None"
               /\ ars = pre
               /\ call.emitted = 0
        /\ call.min_ > call.max_ =>
               /\ call.exc = "ValueError"
               /\ ars = pre
               /\ call.emitted = 0

\* C8 witness: set_range_bounds with emit set and the current bounds, on a
\* widget whose bounds are not the initial ones
C8_Witness ==
    /\ call.op = "set_range_bounds"
    /\ call.emit
    /\ call.exc = "None"
    /\ Iv(call.min_, call.max_) = pre.range_bounds
    /\ call.min_ < call.max_

C10_ViewsAgree ==
    call.op # "none" =>
        /\ IntOfText(ars.range_min_line_edit) = ars.range.min
        /\ IntOfText(ars.range_max_line_edit) = ars.range.max
        /\ ars.slider.minimum = ars.range.min
        /\ ars.slider.maximum = ars.range.max

\* C11: the emit flag decides whether set_range and set_range_bounds emit
\* rangeChanged: never with emit=False, exactly once with emit=True when
\* set_range succeeds or set_range_bounds changes the bounds, and never when
\* the call raises.
C11_EmitFlagDecides ==
    /\ call.op = "set_range" =>
           call.emitted = IF call.emit /\ call.exc = "None" THEN 1 ELSE 0
    /\ call.op = "set_range_bounds" =>
           call.emitted = IF /\ call.emit
                             /\ call.exc = "None"
                             /\ ars.range_bounds # pre.range_bounds
                          THEN 1
                          ELSE 0

\* C11 witness: a set_range call with emit=False succeeded and changed the
\* range without an emission
C11_Witness ==
    /\ call.op = "set_range"
    /\ ~call.emit
    /\ call.exc = "None"
    /\ ars.range # pre.range
    /\ call.emitted = 0

(***************************************************************************)
(* Properties of copies, checked under SpecCopy                            *)
(***************************************************************************)
\* C12: I.copy() == I, and the copy is detached: a later mutation through
\* the copy leaves I unchanged and a mutation of I leaves the copy
\* unchanged.  The interval read from ars.range or ars.range_bounds equals
\* the widget's, and mutating it changes neither the widget's range nor its
\* bounds.
C12_CopyDetached ==
    /\ Icall.op = "copy" => eq(KValue, I)
    /\ Icall.op \in {"k.set", "k.min", "k.max"} => I = Ipre
    /\ Icall.op \in {"I.set", "I.min", "I.max"} => KValue = Kpre
    /\ call.op = "range" => eq(GotValue, ars.range)
    /\ call.op = "range_bounds" => eq(GotValue, ars.range_bounds)
    /\ call.op = "mutate" => (ars.range = pre.range /\ ars.range_bounds = pre.range_bounds)

\* C12 witness: a set call through the copy succeeded and left the copy
\* different from I, which had been changed since its construction
C12_Witness ==
    /\ Icall.op = "k.set"
    /\ Icall.exc = "None"
    /\ KValue # Kpre
    /\ KValue # I
    /\ I # [min |-> 0, max |-> 0]

\* the same for the widget: a mutation of the interval read from ars.range
\* succeeded and the caller's interval now differs from the widget's range
C12_WidgetCase ==
    /\ call.op = "mutate"
    /\ call.exc = "None"
    /\ got.of = "range"
    /\ GotValue # ars.range
    /\ ars.range # ars.range_bounds

(***************************************************************************)
(* Properties of VideoSkimmer, checked under SpecSkimmer                   *)
(***************************************************************************)
\* the last call on vs raised
VRaised == vcall.exc # "None"

\* the frame slider's current range and the spin control's range
FrameRange(s) == s.frame_slider.range

SpinRange(s) == Iv(s.frame_spinbox.minimum, s.frame_spinbox.maximum)

\* C13: whenever a video is loaded, the current frame lies in the active
\* frame range and the active frame range lies in [0, frame count - 1].
C13_FrameInRange ==
    has_video(vs) =>
        /\ Within(vs.current_frame, FrameRange(vs))
        /\ Inside(FrameRange(vs), Iv(0, vs.total_frames - 1))

\* C14: a set_video that returns normally, on a video of N >= 1 frames, ends
\* with range bounds [0, N-1], active frame range [0, N-1], spin control
\* range [0, N-1] and current frame 0, whatever was set before the call.
C14_SetVideoResets ==
    (vcall.op = "set_video" /\ ~VRaised) =>
        LET N == File(vcall.path).actual
        IN  /\ N >= 1
            /\ vs.frame_slider.range_bounds = Iv(0, N - 1)
            /\ FrameRange(vs) = Iv(0, N - 1)
            /\ SpinRange(vs) = Iv(0, N - 1)
            /\ vs.current_frame = 0

\* a video with another frame count replaces one that showed a frame other
\* than 0 inside a narrowed frame range
C14_Witness ==
    /\ vcall.op = "set_video"
    /\ ~VRaised
    /\ has_video(vpre)
    /\ vpre.total_frames # vs.total_frames
    /\ vpre.current_frame # 0
    /\ FrameRange(vpre) # vpre.frame_slider.range_bounds

\* C15: set_video on a video whose codec reports 0 frames counts the k
\* frames by decoding them, returns normally and leaves
\* get_largest_frame() = k - 1.
C15_CountsFramesByDecoding ==
    (vcall.op = "set_video" /\ exists(vcall.path) /\ is_supported_file(vcall.path)
        /\ File(vcall.path).reported = 0) =>
        /\ ~VRaised
        /\ get_largest_frame(vs) = File(vcall.path).actual - 1

\* the last four characters of a path, in lower case
Ending(path) ==
    IF Len(path) < 4 THEN lower(path) ELSE lower(SubSeq(path, Len(path) - 3, Len(path)))

\* selected path, video handle, frame count, current frame, range bounds and
\* active frame range are what they were when the call began
SessionUnchanged ==
    /\ vs.video_path = vpre.video_path
    /\ vs.video = vpre.video
    /\ vs.total_frames = vpre.total_frames
    /\ vs.current_frame = vpre.current_frame
    /\ vs.frame_slider.range_bounds = vpre.frame_slider.range_bounds
    /\ FrameRange(vs) = FrameRange(vpre)

\* C16: set_video raises FileNotFoundError for a path that does not exist,
\* whatever its extension, and ValueError for an existing path that does not
\* end in .mp4 or .avi in any case; both leave the session unchanged.
C16_SetVideoFailures ==
    vcall.op = "set_video" =>
        /\ ~exists(vcall.path) =>
               (vcall.exc = "FileNotFoundError" /\ SessionUnchanged)
        /\ (exists(vcall.path) /\ Ending(vcall.path) \notin supported_video_ext) =>
               (vcall.exc = "ValueError" /\ SessionUnchanged)

\* an existing file without a supported extension is refused while a video
\* is loaded
C16_Witness ==
    /\ vcall.op = "set_video"
    /\ has_video(vpre)
    /\ vpre.total_frames > 0
    /\ exists(vcall.path)
    /\ Ending(vcall.path) \notin supported_video_ext
    /\ VRaised

\* a path that does not exist and has no supported extension is refused while
\* a video is loaded
C16_NotFoundCase ==
    /\ vcall.op = "set_video"
    /\ has_video(vpre)
    /\ ~exists(vcall.path)
    /\ Ending(vcall.path) \notin supported_video_ext
    /\ VRaised

\* C17: with a video of last frame index L loaded, set_frame_range(start,
\* stop) with two numbers makes [start, stop] the slider's current range and
\* the spin control's range if 0 <= start <= stop <= L; it raises if
\* start > stop, start < 0 or stop > L, and then leaves both ranges unchanged.
C17_SetFrameRangeExact ==
    (vcall.op = "set_frame_range" /\ has_video(vpre) /\ vpre.total_frames > 0
        /\ vcall.start.t = "num" /\ vcall.stop.t = "num") =>
        LET start == ToInt(vcall.start.v)
            stop == ToInt(vcall.stop.v)
            L == vpre.total_frames - 1
        IN  IF 0 <= start /\ start <= stop /\ stop <= L
            THEN /\ ~VRaised
                 /\ FrameRange(vs) = Iv(start, stop)
                 /\ SpinRange(vs) = Iv(start, stop)
            ELSE /\ VRaised
                 /\ FrameRange(vs) = FrameRange(vpre)
                 /\ SpinRange(vs) = SpinRange(vpre)

\* the frame of the active frame range closest to n
Closest(n, r) == IF n < r.min THEN r.min ELSE IF n > r.max THEN r.max ELSE n

\* C18: with a video loaded, set_frame(n) in the default mode returns
\* normally with the current frame n, or the closest frame of the active
\* frame range if n is outside it; with assume_closest=False a frame outside
\* the range raises ValueError and leaves current frame, spin value and
\* preview unchanged.
C18_SetFrameClosestOrRaise ==
    (vcall.op = "set_frame" /\ has_video(vpre)) =>
        /\ vcall.assume_closest =>
               /\ ~VRaised
               /\ vs.current_frame = Closest(vcall.frame_num, FrameRange(vpre))
        /\ (~vcall.assume_closest /\ ~Within(vcall.frame_num, FrameRange(vpre))) =>
               /\ vcall.exc = "ValueError"
               /\ vs.current_frame = vpre.current_frame
               /\ vs.frame_spinbox.value = vpre.frame_spinbox.value
               /\ vs.frame_preview = vpre.frame_preview

\* the same for a video that set_video loaded to its end
C18_AfterCompleteLoad ==
    (vcall.op = "set_frame" /\ has_video(vpre) /\ vpre.total_frames > 0) =>
        /\ vcall.assume_closest =>
               /\ ~VRaised
               /\ vs.current_frame = Closest(vcall.frame_num, FrameRange(vpre))
        /\ (~vcall.assume_closest /\ ~Within(vcall.frame_num, FrameRange(vpre))) =>
               /\ vcall.exc = "ValueError"
               /\ vs.current_frame = vpre.current_frame
               /\ vs.frame_spinbox.value = vpre.frame_spinbox.value
               /\ vs.frame_preview = vpre.frame_preview

\* the step of the last call: +1 for next_frame, -1 for prev_frame
Step == IF vcall.op = "next_frame" THEN 1 ELSE 0 - 1

\* C19: next_frame and prev_frame move the current frame by exactly one if
\* the target lies in the active frame range; otherwise they return normally
\* and leave the current frame unchanged.
C19_StepsByOne ==
    vcall.op \in {"next_frame", "prev_frame"} =>
        IF Within(vpre.current_frame + Step, FrameRange(vpre))
        THEN vs.current_frame = vpre.current_frame + Step
        ELSE ~VRaised /\ vs.current_frame = vpre.current_frame

\* C19 as amended: the same with a video loaded.
C19_StepsByOneWithVideo ==
    (vcall.op \in {"next_frame", "prev_frame"} /\ has_video(vpre)) =>
        IF Within(vpre.current_frame + Step, FrameRange(vpre))
        THEN vs.current_frame = vpre.current_frame + Step
        ELSE ~VRaised /\ vs.current_frame = vpre.current_frame

\* next_frame moved the current frame of a loaded video
C19_Witness ==
    /\ vcall.op = "next_frame"
    /\ has_video(vpre)
    /\ vs.current_frame = vpre.current_frame + 1

\* prev_frame at the first frame of a narrowed frame range did nothing
C19_AtFirstFrame ==
    /\ vcall.op = "prev_frame"
    /\ has_video(vpre)
    /\ vpre.current_frame = FrameRange(vpre).min
    /\ vpre.current_frame > 0
    /\ vs.current_frame = vpre.current_frame

\* C20: set_frame, next_frame and prev_frame called with
\* autoupdate_preview=False read no frame and show none: the preview is what
\* it was when the call began.
C20_NoPreviewWhenNotAsked ==
    (vcall.op \in {"set_frame", "next_frame", "prev_frame"} /\ ~vcall.autoupdate_preview) =>
        /\ vcall.reads = 0
        /\ vcall.shown = 0
        /\ vs.frame_preview = vpre.frame_preview

\* C21: with a video loaded, once a change the user made to the slider or to
\* the spin control has been handled, slider value, spin value and current
\* frame are equal, and no handler called set_frame while the two controls
\* showed different values.
C21_ControlsAgree ==
    (vcall.op \in {"slider_moved", "spin_edited"} /\ has_video(vpre)) =>
        /\ vs.frame_slider.slider.value = vs.frame_spinbox.value
        /\ vs.frame_spinbox.value = vs.current_frame
        /\ vcall.unsynced = 0

\* the user entered another frame in the spin control of a loaded video and
\* the slider followed
C21_Witness ==
    /\ vcall.op = "spin_edited"
    /\ has_video(vpre)
    /\ vs.frame_spinbox.value = vcall.value
    /\ vs.frame_slider.slider.value # vpre.frame_slider.slider.value

\* the user moved the slider of a loaded video and the spin control followed
C21_SliderCase ==
    /\ vcall.op = "slider_moved"
    /\ has_video(vpre)
    /\ vs.frame_slider.slider.value = vcall.value
    /\ vs.frame_spinbox.value # vpre.frame_spinbox.value

\* neither a path nor a video handle is held
NothingSelected(s) == s.video_path = NoPath /\ s.video = NoVideo

\* C22: while no video is loaded, set_frame, next_frame and prev_frame return
\* normally for every argument and in both modes, read no frame, and leave
\* the current frame at its initial value and the spin control as it was.
C22_NoVideoNoOp ==
    (vcall.op \in {"set_frame", "next_frame", "prev_frame"} /\ NothingSelected(vpre)) =>
        /\ ~VRaised
        /\ vs.current_frame = VideoSkimmer.current_frame
        /\ vs.frame_spinbox = vpre.frame_spinbox
        /\ vcall.reads = 0
        /\ vcall.shown = 0
        /\ vs = vpre

\* without a video, set_frame in strict mode was given a frame outside the
\* frame range while the spin control showed a value the user had entered
C22_Witness ==
    /\ vcall.op = "set_frame"
    /\ NothingSelected(vpre)
    /\ ~vcall.assume_closest
    /\ ~Within(vcall.frame_num, FrameRange(vpre))
    /\ vpre.frame_spinbox.value # vcall.frame_num
    /\ vpre.frame_spinbox.value # 0

\* without a video, next_frame found its target inside the frame range
C22_NextFrameCase ==
    /\ vcall.op = "next_frame"
    /\ NothingSelected(vpre)
    /\ Within(vpre.current_frame + 1, FrameRange(vpre))

\* C24: every call and every user action on the VideoSkimmer enters only
\* finitely many valueChanged and rangeChanged slots: the chain of handlers
\* ends by itself, before the cut at MaxSlots slots.
C24_HandlersSettle == ~vcall.cut /\ vcall.steps < MaxSlots

\* a move of the slider on a loaded video made the handlers of both controls
\* run, one inside the other
C24_Witness ==
    /\ vcall.op = "slider_moved"
    /\ has_video(vpre)
    /\ vcall.steps >= 2
    /\ ~vcall.cut
    /\ vs.frame_spinbox.value # vpre.frame_spinbox.value

\* a call entered slots of both controls and of rangeChanged
C24_LongestChain ==
    /\ vcall.op = "set_video"
    /\ vcall.steps >= 6
    /\ ~vcall.cut

\* C25: after set_video, set_frame_range (returning or raising) and commits
\* of the frame slider's min and max fields, the spin control's minimum and
\* maximum are the frame slider's current range.
C25_SpinRangeIsFrameRange ==
    vcall.op \in {"set_video", "set_frame_range", "min_edited", "max_edited"} =>
        SpinRange(vs) = FrameRange(vs)

(***************************************************************************)
(* Properties of to_os_dir_sep, checked under SpecPath                     *)
(***************************************************************************)
\* the path with every character c replaced by d
Replaced(path, c, d) == [i \in 1..Len(path) |-> IF path[i] = c THEN d ELSE path[i]]

\* C23: to_os_dir_sep raises ValueError exactly for a path that holds both a
\* backslash and a forward slash; otherwise it returns the path with every
\* separator of the one style present replaced by os.path.sep, and a path
\* without a separator unchanged.
C23_SeparatorsReplaced ==
    pcall.op = "to_os_dir_sep" =>
        LET path == pcall.path
            back == in_path("\\", path)
            forward == in_path("/", path)
        IN  IF back /\ forward
            THEN pcall.exc = "ValueError"
            ELSE /\ pcall.exc = "None"
                 /\ back => pcall.result = Replaced(path, "\\", pcall.os_path_sep)
                 /\ forward => pcall.result = Replaced(path, "/", pcall.os_path_sep)
                 /\ (~back /\ ~forward) => pcall.result = path

\* a path with two backslashes, one of them leading, converted on a POSIX host
C23_Witness ==
    /\ pcall.op = "to_os_dir_sep"
    /\ pcall.os_path_sep = "/"
    /\ pcall.path = <<"\\", "a", "\\", "a">>
    /\ pcall.result = <<"/", "a", "/", "a">>

\* a path with both separators was refused
C23_MixedCase ==
    /\ pcall.op = "to_os_dir_sep"
    /\ pcall.path = <<"a", "/", "a", "\\">>
    /\ pcall.exc = "ValueError"

====
